---- MODULE Spec2Model ----
(***************************************************************************)
(* Model of the kainos-tests Cucumber + Playwright suite.                  *)
(*                                                                         *)
(* The state machine is one run of the scenario runner over the feature    *)
(* file: BeforeAll, then for every selected scenario a new World, the      *)
(* Before hook, the scenario's steps, the After hook, and finally          *)
(* AfterAll.  Every call into the browser driver (launch, newContext,      *)
(* newPage, screenshot, close, the locator queries and interactions of     *)
(* the step definitions) either succeeds or rejects; which one is the      *)
(* environment's choice.                                                   *)
(***************************************************************************)
EXTENDS Integers, Sequences, FiniteSets, TLC

(***************************************************************************)
(* Bounds of the model.                                                    *)
(***************************************************************************)
\* number of consecutive scenarios of the feature file one run selects
NScen == 2

\* number of table rows whose link the header may show otherwise than the
\* table says
MaxOddRows == 2

(***************************************************************************)
(* The feature file.                                                       *)
(***************************************************************************)
St(k, a, r) == [kind |-> k, args |-> a, rows |-> r]

Background ==
  << St("goto", <<>>, <<>>),
     St("cookie", <<>>, <<>>) >>

NavigationItems ==
  << <<"Digital Services", "/digital-services">>,
     <<"Workday", "/workday">>,
     <<"Industries", "/industries">>,
     <<"Insights", "/insights">>,
     <<"Careers", "https://careers.kainos.com/gb/en">> >>

Services ==
  << <<"Digital Advisory">>, <<"Cloud and engineering">>, <<"Data and AI">>,
     <<"AI Business Solutions">>, <<"User-centred design">>,
     <<"Managed services">> >>

Impacts ==
  << <<"Building digital transformation">>,
     <<"Driving continuous improvement">>,
     <<"Improving business performance">>,
     <<"Improving customer engagement">> >>

Examples ==
  << <<"Digital Services", "/digital-services">>,
     <<"Workday", "/workday">>,
     <<"Industries", "/industries">>,
     <<"Insights", "/insights">> >>

OutlinePickle(row) ==
  Background \o
  << St("clickLink", <<row[1]>>, <<>>),
     St("navigatedTo", <<row[2]>>, <<>>) >>

\* the pickles of the feature, in file order; every one starts with the
\* Background steps
Pickles ==
  << Background \o
       << St("logoVisible", <<>>, <<>>),
          St("logoSrc", <<>>, <<>>),
          St("logoLink", <<>>, <<>>) >>,
     Background \o
       << St("navItems", <<>>, NavigationItems) >>,
     Background \o
       << St("buttonVisible", <<"Share icons">>, <<>>),
          St("linkVisible", <<"Get in touch">>, <<>>),
          St("linkPointsTo", <<"Get in touch", "/contact-us">>, <<>>),
          St("buttonVisible", <<"Search">>, <<>>) >>,
     Background \o
       << St("hover", <<"Digital Services">>, <<>>),
          St("services", <<>>, Services),
          St("impacts", <<>>, Impacts) >>,
     Background \o
       << St("clickNavItem", <<"Digital Services">>, <<>>),
          St("navigatedTo", <<"/digital-services">>, <<>>),
          St("titleContains", <<"Digital Services">>, <<>>) >>,
     Background \o
       << St("keyboard", <<>>, <<>>),
          St("aria", <<>>, <<>>) >> >>
  \o [i \in 1..Len(Examples) |-> OutlinePickle(Examples[i])]

NPickles == Len(Pickles)

(***************************************************************************)
(* The step definitions: the driver calls a routine makes, in order, when  *)
(* none of them rejects.  "nav" is a page navigation, "query" a DOM query  *)
(* (a locator assertion or attribute/title read), "interact" a hover,      *)
(* click or focus, "wait" a timeout or load-state wait, "read" the         *)
(* synchronous page.url(), "assert" an expect on a value already read.     *)
(***************************************************************************)
RECURSIVE Repeat(_, _)
Repeat(s, n) == IF n = 0 THEN <<>> ELSE s \o Repeat(s, n - 1)

\* mutant of ClickCalls: the click is issued a second time
ClickCallsRetry == << "interact", "wait", "interact", "wait" >>

\* the body shared by the two click routines: click, then waitForLoadState
ClickCalls == << "interact", "wait" >>

\* the three links of the navLinks array literal
NavLinks == << "Digital Services", "Workday", "Industries" >>

\* `visible` is what the cookie step's isVisible().catch(() => false) gave
StepCalls(step, visible) ==
  CASE step.kind = "goto"          -> << "nav" >>
    [] step.kind = "cookie"        -> << "query" >> \o
                                      (IF visible THEN << "interact", "wait" >>
                                                  ELSE << >>)
    [] step.kind = "logoVisible"   -> << "query" >>
    [] step.kind = "logoSrc"       -> << "query", "assert" >>
    [] step.kind = "logoLink"      -> << "query" >>
    [] step.kind = "navItems"      -> Repeat(<< "query", "query", "assert" >>,
                                             Len(step.rows))
    [] step.kind = "buttonVisible" -> << "query" >>
    [] step.kind = "linkVisible"   -> << "query" >>
    [] step.kind = "linkPointsTo"  -> << "query" >>
    [] step.kind = "hover"         -> << "interact", "wait" >>
    [] step.kind = "services"      -> Repeat(<< "query" >>, Len(step.rows))
    [] step.kind = "impacts"       -> Repeat(<< "query" >>, Len(step.rows))
    [] step.kind = "clickNavItem"  -> ClickCalls
    [] step.kind = "clickLink"     -> ClickCalls
    [] step.kind = "navigatedTo"   -> << "read", "assert" >>
    [] step.kind = "titleContains" -> << "query", "assert" >>
    [] step.kind = "keyboard"      -> Repeat(<< "interact", "query" >>,
                                             Len(NavLinks))
    [] step.kind = "aria"          -> << "query" >>

\* mutant of CanFail: the cookie step's isVisible() has no catch
CanFailNoCatch(step, calls, i) == calls[i] # "read"

\* can the i-th call of the step make the step fail?  page.url() cannot
\* reject, and the cookie step catches the rejection of its isVisible()
CanFail(step, calls, i) ==
  /\ calls[i] # "read"
  /\ ~(step.kind = "cookie" /\ i = 1)

Count(calls, kind) == Cardinality({ i \in DOMAIN calls : calls[i] = kind })

(***************************************************************************)
(* The scenario runner (the part of it the hooks and the configuration     *)
(* rely on).                                                               *)
(***************************************************************************)
\* mutant of Config: the configuration asks for one retry
ConfigWithRetry == [parallel |-> 1, retry |-> 1]

\* the run options cucumber.js exports that bear on scheduling: one worker,
\* and no `retry` key
Config == [parallel |-> 1]

\* without a `retry` option a failed scenario is not run again
Retry == IF "retry" \in DOMAIN Config THEN Config.retry ELSE 0

Worst(a, b) == IF a = "failed" \/ b = "failed" THEN "failed" ELSE b

\* mutant of IsSkippingSteps: steps run whatever happened before them
IsSkippingNever(res) == FALSE

\* once a hook or step of the scenario has not passed, the remaining steps
\* are skipped; After hooks still run
IsSkippingSteps(res) == res = "failed"

\* hooks.ts line 31
ScreenshotWanted(res) == res = "failed"

VARIABLES
  pc,            \* where the runner is
  first,         \* index in Pickles of the first selected scenario
  cur,           \* number of the current scenario in the run, 1..NScen
  attempt,       \* attempt number of the current scenario
  stepIdx,       \* next step of the current scenario
  browser,       \* module variable `browser`: 0 = undefined, else the handle
  browserOpen,   \* is the launched browser process still open
  launches,      \* calls of chromium.launch so far
  browserCloses, \* calls of browser.close so far
  world,         \* the current World: page and context (0 = undefined)
  nextId,        \* last object id handed out by the driver
  created,       \* every context and page the driver created
  openContexts,  \* ids of the contexts that are open
  openPages,     \* ids of the pages that are open
  pageUse,       \* which scenario's steps drove which page
  result,        \* per scenario: worst result of its hooks and steps so far
  shots,         \* per scenario: screenshots attached to its report entry
  stepLog,       \* per step of the current scenario: what it did
  hookLog,       \* what Before and After of the current scenario did
  logScen,       \* the scenario stepLog and hookLog are about (0 = none)
  acquireFailed, \* scenarios whose Before hook failed to acquire
  executed,      \* scenarios of which a step routine was executed
  runStatus,     \* outcome of the run
  banner,        \* what the cookie step's isVisible() met on the page
  links,         \* the links of the page header the steps looked at
  location,      \* the page's URL, as a sequence of pieces
  title,         \* the page's title, as a sequence of pieces
  focused        \* accessible name of the focused header link, "" if none

vars == << pc, first, cur, attempt, stepIdx, browser, browserOpen, launches,
           browserCloses, world, nextId, created, openContexts, openPages,
           pageUse, result, shots, stepLog, hookLog, logScen, acquireFailed,
           executed, runStatus, banner, links, location, title, focused >>

\* the state of the current scenario's page
pageVars == << banner, links, location, title, focused >>

Scenarios == 1..NScen

\* the steps of the i-th scenario of the run
PickleOf(i) == Pickles[first + i - 1]

NoHooks ==
  [ before |-> "none", after |-> "none",
    newContextCalls |-> 0, newPageCalls |-> 0,
    shotPage |-> -1, shotOk |-> FALSE,
    pageCloseTried |-> FALSE, pageCloseOk |-> FALSE,
    ctxCloseTried |-> FALSE, ctxCloseOk |-> FALSE ]

PendingStep ==
  [ status |-> "pending", runs |-> 0,
    interactions |-> 0, queries |-> 0, navigations |-> 0 ]

Init ==
  /\ pc = "beforeAll"
  /\ first \in 1..(NPickles - NScen + 1)
  /\ cur = 1
  /\ attempt = 1
  /\ stepIdx = 1
  /\ browser = 0
  /\ browserOpen = FALSE
  /\ launches = 0
  /\ browserCloses = 0
  /\ world = [page |-> 0, context |-> 0]
  /\ nextId = 0
  /\ created = {}
  /\ openContexts = {}
  /\ openPages = {}
  /\ pageUse = {}
  /\ result = [s \in Scenarios |-> "none"]
  /\ shots = [s \in Scenarios |-> 0]
  /\ stepLog = << >>
  /\ hookLog = NoHooks
  /\ logScen = 0
  /\ acquireFailed = {}
  /\ executed = {}
  /\ runStatus = "running"
  /\ banner = "unknown"
  /\ links = {}
  /\ location = << >>
  /\ title = << >>
  /\ focused = ""


Finished(s) ==
  /\ result[s] # "none"
  /\ \/ s < cur
     \/ pc \in {"afterAll", "done"}

(***************************************************************************)
(* BeforeAll: launch the browser once.  When the launch rejects the        *)
(* runner reports the hook error and ends the run without starting a       *)
(* scenario (with or without running the AfterAll hooks).                  *)
(***************************************************************************)
BeforeAll ==
  /\ pc = "beforeAll"
  /\ launches' = launches + 1
  /\ \E ok \in BOOLEAN :
       IF ok
         THEN /\ browser' = launches + 1
              /\ browserOpen' = TRUE
              /\ pc' = "world"
              /\ runStatus' = runStatus
         ELSE /\ browser' = browser
              /\ browserOpen' = browserOpen
              /\ pc' \in {"aborted", "afterAll"}
              /\ runStatus' = "failed"
  /\ UNCHANGED << first, logScen, cur, attempt, stepIdx, browserCloses, world, nextId,
                  created, openContexts, openPages, pageUse, result, shots,
                  stepLog, hookLog, acquireFailed, executed, pageVars >>

(***************************************************************************)
(* A fresh World is constructed for every scenario attempt; page and       *)
(* context are declared but not assigned by the constructor.               *)
(***************************************************************************)
KainosWorld == [page |-> 0, context |-> 0]

NewWorld ==
  /\ pc = "world"
  /\ world' = KainosWorld
  /\ stepLog' = [i \in 1..Len(PickleOf(cur)) |-> PendingStep]
  /\ hookLog' = NoHooks
  /\ logScen' = cur
  /\ banner' = "unknown"
  /\ links' = {}
  /\ location' = << >>
  /\ title' = << >>
  /\ focused' = ""
  /\ result' = [result EXCEPT ![cur] = "none"]
  /\ stepIdx' = 1
  /\ pc' = "before"
  /\ UNCHANGED << first, cur, attempt, browser, browserOpen, launches,
                  browserCloses, nextId, created, openContexts, openPages,
                  pageUse, shots, acquireFailed, executed, runStatus >>

(***************************************************************************)
(* Before: this.context = await browser.newContext(...);                   *)
(*         this.page = await this.context.newPage();                       *)
(* `o` is what the driver does: "ok", or the rejection of newContext or    *)
(* of newPage.  n is the last id the driver handed out.                    *)
(***************************************************************************)
\* mutant of BeforeWorld: the page is created once (id 2, in the first
\* scenario) and that same page is handed to every later scenario
BeforeWorldShared(w, o, n) ==
  CASE o = "ok"           -> [page |-> 2, context |-> n + 1]
    [] o = "pageFails"    -> [page |-> w.page, context |-> n + 1]
    [] o = "contextFails" -> w

BeforeWorld(w, o, n) ==
  CASE o = "ok"           -> [page |-> n + 2, context |-> n + 1]
    [] o = "pageFails"    -> [page |-> w.page, context |-> n + 1]
    [] o = "contextFails" -> w

Before ==
  /\ pc = "before"
  /\ \E choice \in {"ok", "contextFails", "pageFails"} :
       LET o == IF browser = 0 \/ ~browserOpen THEN "contextFails" ELSE choice
           status == IF o = "ok" THEN "passed" ELSE "failed"
           ctx == [id |-> nextId + 1, kind |-> "context", scen |-> cur,
                   parent |-> browser]
           pg == [id |-> nextId + 2, kind |-> "page", scen |-> cur,
                  parent |-> nextId + 1]
       IN  /\ world' = BeforeWorld(world, o, nextId)
           /\ created' = created \cup
                 (IF o = "contextFails" THEN {} ELSE {ctx}) \cup
                 (IF o = "ok" THEN {pg} ELSE {})
           /\ openContexts' = openContexts \cup
                 (IF o = "contextFails" THEN {} ELSE {ctx.id})
           /\ openPages' = openPages \cup (IF o = "ok" THEN {pg.id} ELSE {})
           /\ nextId' = nextId + (CASE o = "ok" -> 2
                                    [] o = "pageFails" -> 1
                                    [] o = "contextFails" -> 0)
           /\ hookLog' = [hookLog EXCEPT
                 !.before = status,
                 !.newContextCalls = @ + 1,
                 !.newPageCalls = @ + (IF o = "contextFails" THEN 0 ELSE 1)]
           /\ result' = [result EXCEPT ![cur] = Worst(@, status)]
           /\ acquireFailed' = IF o = "ok" THEN acquireFailed
                                           ELSE acquireFailed \cup {cur}
  /\ pc' = "steps"
  /\ stepIdx' = 1
  /\ UNCHANGED << first, logScen, cur, attempt, browser, browserOpen, launches,
                  browserCloses, pageUse, shots, stepLog, executed,
                  runStatus, pageVars >>

(***************************************************************************)
(* One step of the current scenario.  The routine makes its driver calls   *)
(* in order on this.page; the first call that rejects (failAt) ends the    *)
(* routine and fails the step.                                             *)
(***************************************************************************)
StepRoutine(visible, failAt) ==
  LET step == PickleOf(cur)[stepIdx]
      calls == StepCalls(step, visible)
      made == IF failAt = 0 THEN calls ELSE SubSeq(calls, 1, failAt)
      status == IF failAt = 0 THEN "passed" ELSE "failed"
  IN  /\ pc = "steps"
      /\ stepIdx <= Len(PickleOf(cur))
      /\ ~IsSkippingSteps(result[cur])
      /\ failAt <= Len(calls)
      /\ failAt > 0 => CanFail(step, calls, failAt)
      /\ step.kind # "cookie" => visible
      /\ stepLog' = [stepLog EXCEPT ![stepIdx] =
            [ status |-> status, runs |-> @.runs + 1,
              interactions |-> Count(made, "interact"),
              queries |-> Count(made, "query"),
              navigations |-> Count(made, "nav") ]]
      /\ pageUse' = pageUse \cup {[page |-> world.page, scen |-> cur]}
      /\ executed' = executed \cup {cur}
      /\ result' = [result EXCEPT ![cur] = Worst(@, status)]
      /\ stepIdx' = stepIdx + 1
      /\ UNCHANGED << pc, first, logScen, cur, attempt, nextId, created, openContexts,
                      openPages, shots, hookLog, acquireFailed, runStatus >>

\* the longest call sequence of any step routine
MaxCalls == 3 * Len(NavigationItems)

(***************************************************************************)
(* What the page shows decides which call of a routine rejects, and what   *)
(* the routine does to the page.                                           *)
(***************************************************************************)
\* isVisible().catch(() => false): true only for a visible button
IsVisibleCaught(probe) == probe = "visible"

\* 'I accept the cookie consent': the button is visible, is hidden or
\* absent, or the visibility query itself throws
CookieStep(step, visible, failAt) ==
  \E probe \in {"visible", "hidden", "throws"} :
    /\ visible = IsVisibleCaught(probe)
    /\ failAt = 1 => probe = "throws"
    /\ (probe = "throws" /\ CanFail(step, StepCalls(step, visible), 1))
         => failAt = 1
    /\ banner' = probe
    /\ UNCHANGED << links, location, title, focused >>

\* A text (URL or title) is a sequence of pieces; the literals of the
\* feature file are single pieces.
Origin == "https://www.kainos.com"

HomeUrl == << Origin, "/" >>

\* the URLs a click in the header can lead to: the page itself, the target
\* of a navigation item, or a page below such a target
ClickUrls ==
  {HomeUrl}
    \cup { << Origin, Examples[i][2] >> : i \in DOMAIN Examples }
    \cup { << Origin, Examples[1][2], "/cloud-and-engineering" >> }

\* the titles a page can have: with a navigation label in it, without one,
\* or with the label in another case
PageTitles ==
  { << Examples[1][1], " | Kainos" >>, << Examples[2][1], " | Kainos" >>,
    << "Kainos" >>, << "digital services" >> }

\* mutant of Includes: the text has to equal the literal
IncludesWhole(text, lit) == text = << lit >>

\* expect(text).toContain(lit)
RECURSIVE Includes(_, _)
Includes(text, lit) ==
  IF text = << >> THEN FALSE
  ELSE Head(text) = lit \/ Includes(Tail(text), lit)

\* 'I navigate to the Kainos homepage'
GotoStep(failAt) ==
  /\ IF failAt = 0
       THEN location' = HomeUrl /\ title' = << "Kainos" >>
       ELSE UNCHANGED << location, title >>
  /\ UNCHANGED << banner, links, focused >>

\* 'I click on the {string} navigation item' / 'I click on the {string}
\* link': unless the click itself rejects, the page is where the click led
ClickStep(failAt) ==
  /\ IF failAt = 1
       THEN UNCHANGED << location, title >>
       ELSE location' \in ClickUrls /\ title' \in PageTitles
  /\ UNCHANGED << banner, links, focused >>

\* 'I should be navigated to {string}': page.url() is read and the expect
\* (call 2) decides
NavigatedToStep(step, failAt) ==
  /\ failAt = (IF Includes(location, step.args[1]) THEN 0 ELSE 2)
  /\ UNCHANGED pageVars

\* 'the page title should contain {string}': page.title() is read and the
\* expect (call 2) decides
TitleContainsStep(step, failAt) ==
  /\ failAt = (IF Includes(title, step.args[1]) THEN 0 ELSE 2)
  /\ UNCHANGED pageVars

\* A header link as the driver sees it.
Link(n, h, v, f) == [name |-> n, href |-> h, visible |-> v, focusable |-> f]

\* an accessible name that contains n without being n
Longer(n) == n \o " menu"

\* mutant of NameMatches: the name is matched as a substring, as without
\* `exact`
NameMatchesLoosely(ln, n) == ln = n \/ ln = Longer(n)

\* { name: n, exact: true }: the whole accessible name, case-sensitively
NameMatches(ln, n) == ln = n

\* locator('#header').getByRole('link', { name, exact: true }): the links
\* of the accessibility tree (hidden ones are not in it) with that name
Located(dom, n) == { l \in dom : l.visible /\ NameMatches(l.name, n) }

\* a locator action or assertion needs its locator to resolve to exactly
\* one element: none times out, several are a strict-mode violation
Resolves(dom, n) == Cardinality(Located(dom, n)) = 1

TheLink(dom, n) == CHOOSE l \in Located(dom, n) : TRUE

\* the destination the feature file gives for a navigation item
HrefOf(n) ==
  LET r == CHOOSE i \in DOMAIN NavigationItems : NavigationItems[i][1] = n
  IN  NavigationItems[r][2]

\* the headers the keyboard step can meet: each link of its list is
\* missing, is there but cannot take focus, or can take focus
KeyboardDoms ==
  { { Link(NavLinks[i], HrefOf(NavLinks[i]), TRUE, st[i] = "focusable") :
        i \in { j \in DOMAIN NavLinks : st[j] # "absent" } } :
      st \in [DOMAIN NavLinks -> {"absent", "inert", "focusable"}] }

\* the ways the header can show the link of one table row: as the table
\* says, not at all, hidden, with another destination, under a longer
\* name, or twice
RowLinks(row) ==
  << { Link(row[1], row[2], TRUE, TRUE) },
     {},
     { Link(row[1], row[2], FALSE, TRUE) },
     { Link(row[1], "/", TRUE, TRUE) },
     { Link(Longer(row[1]), row[2], TRUE, TRUE) },
     { Link(row[1], row[2], TRUE, TRUE), Link(row[1], "/", TRUE, TRUE) } >>

\* the headers the navigation-items step can meet
NavItemsDoms(rows) ==
  { UNION { RowLinks(rows[i])[pick[i]] : i \in DOMAIN rows } :
      pick \in { f \in [DOMAIN rows -> DOMAIN RowLinks(rows[1])] :
                   Cardinality({ i \in DOMAIN rows : f[i] # 1 })
                     <= MaxOddRows } }

\* for (const row of rows) { await expect(navLink).toBeVisible();
\*   const href = await navLink.getAttribute('href');
\*   expect(href).toBe(row['URL']); }
\* from the k-th row on: the call that rejects (0 = none)
RECURSIVE NavItemsFrom(_, _, _)
NavItemsFrom(rows, k, dom) ==
  IF k > Len(rows) THEN 0
  ELSE IF ~Resolves(dom, rows[k][1]) THEN 3 * (k - 1) + 1
  ELSE IF TheLink(dom, rows[k][1]).href # rows[k][2] THEN 3 * (k - 1) + 3
  ELSE NavItemsFrom(rows, k + 1, dom)

\* 'the following navigation items should be visible:'
NavItemsStep(step, failAt) ==
  \E dom \in NavItemsDoms(step.rows) :
    /\ failAt = NavItemsFrom(step.rows, 1, dom)
    /\ links' = dom
    /\ UNCHANGED << banner, location, title, focused >>

\* mutant of IsFocused: any focused link satisfies the assertion
IsFocusedAny(f, n) == f # ""

\* expect(link).toBeFocused(): the link is the focused element
IsFocused(f, n) == f = n

\* for (const link of navLinks) { await link.focus();
\*                                await expect(link).toBeFocused(); }
\* run on the list `order` from its k-th element, with f focused; gives the
\* call that rejects (0 = none) and the focused link at the end
RECURSIVE KeyboardFrom(_, _, _, _)
KeyboardFrom(order, k, dom, f) ==
  IF k > Len(order) THEN [failAt |-> 0, focused |-> f]
  ELSE IF ~Resolves(dom, order[k])
    THEN [failAt |-> 2 * k - 1, focused |-> f]
    ELSE LET g == IF TheLink(dom, order[k]).focusable THEN order[k] ELSE f
         IN  IF ~IsFocused(g, order[k])
               THEN [failAt |-> 2 * k, focused |-> g]
               ELSE KeyboardFrom(order, k + 1, dom, g)

\* 'all navigation links should be keyboard accessible'
KeyboardStep(failAt) ==
  \E dom \in KeyboardDoms :
    LET run == KeyboardFrom(NavLinks, 1, dom, focused)
    IN  /\ failAt = run.failAt
        /\ links' = dom
        /\ focused' = run.focused
        /\ UNCHANGED << banner, location, title >>

StepOnPage(visible, failAt) ==
  /\ StepRoutine(visible, failAt)
  /\ LET step == PickleOf(cur)[stepIdx]
     IN  CASE step.kind = "cookie" -> CookieStep(step, visible, failAt)
           [] step.kind = "goto" -> GotoStep(failAt)
           [] step.kind \in {"clickNavItem", "clickLink"} -> ClickStep(failAt)
           [] step.kind = "navigatedTo" -> NavigatedToStep(step, failAt)
           [] step.kind = "titleContains" -> TitleContainsStep(step, failAt)
           [] step.kind = "keyboard" -> KeyboardStep(failAt)
           [] step.kind = "navItems" -> NavItemsStep(step, failAt)
           [] OTHER -> UNCHANGED pageVars

\* mutant of RunStep: a routine drops the World's page reference
RunStepReassigns ==
  /\ \E visible \in BOOLEAN, failAt \in 0..MaxCalls :
       StepOnPage(visible, failAt)
  /\ world' = [world EXCEPT !.page = 0]
  /\ UNCHANGED << browser, browserOpen, launches, browserCloses >>

RunStep ==
  /\ \E visible \in BOOLEAN, failAt \in 0..MaxCalls :
       StepOnPage(visible, failAt)
  /\ UNCHANGED << world, browser, browserOpen, launches, browserCloses >>

SkipStep ==
  /\ pc = "steps"
  /\ stepIdx <= Len(PickleOf(cur))
  /\ IsSkippingSteps(result[cur])
  /\ stepLog' = [stepLog EXCEPT ![stepIdx].status = "skipped"]
  /\ stepIdx' = stepIdx + 1
  /\ UNCHANGED << pc, first, logScen, cur, attempt, browser, browserOpen, launches,
                  browserCloses, world, nextId, created, openContexts,
                  openPages, pageUse, result, shots, hookLog, acquireFailed,
                  executed, runStatus, pageVars >>

(***************************************************************************)
(* After: screenshot when the scenario failed, then page?.close() and      *)
(* context?.close(); the hook has no try/catch, so the first call that     *)
(* throws ends it.  shotOk, pageOk and ctxOk say whether the driver's      *)
(* screenshot, page.close and context.close resolve.  The runner then      *)
(* finishes the scenario and moves on.                                     *)
(***************************************************************************)
PagesOf(c) == { p.id : p \in { x \in created : x.kind = "page" /\ x.parent = c } }

AfterHook(shotOk, pageOk, ctxOk) ==
  LET res == result[cur]
      wanted == ScreenshotWanted(res)
      shotThrows == wanted /\ ( \/ world.page = 0
                                \/ world.page \notin openPages
                                \/ ~shotOk )
      attached == wanted /\ ~shotThrows
      pageTried == ~shotThrows /\ world.page # 0
      pageThrows == pageTried /\ ~pageOk
      ctxTried == ~shotThrows /\ ~pageThrows /\ world.context # 0
      ctxThrows == ctxTried /\ ~ctxOk
      status == IF shotThrows \/ pageThrows \/ ctxThrows
                  THEN "failed" ELSE "passed"
      final == Worst(res, status)
  IN  /\ pc = "steps"
      /\ stepIdx > Len(PickleOf(cur))
      /\ shots' = [shots EXCEPT ![cur] = @ + (IF attached THEN 1 ELSE 0)]
      /\ openPages' =
           (openPages \ (IF pageTried /\ ~pageThrows THEN {world.page} ELSE {}))
             \ (IF ctxTried /\ ~ctxThrows THEN PagesOf(world.context) ELSE {})
      /\ openContexts' =
           openContexts \ (IF ctxTried /\ ~ctxThrows THEN {world.context}
                                                     ELSE {})
      /\ hookLog' = [hookLog EXCEPT
            !.after = status,
            !.shotPage = IF wanted THEN world.page ELSE -1,
            !.shotOk = attached,
            !.pageCloseTried = pageTried,
            !.pageCloseOk = pageTried /\ ~pageThrows,
            !.ctxCloseTried = ctxTried,
            !.ctxCloseOk = ctxTried /\ ~ctxThrows]
      /\ result' = [result EXCEPT ![cur] = final]
      /\ IF final = "failed" /\ attempt <= Retry
           THEN pc' = "world" /\ cur' = cur /\ attempt' = attempt + 1
           ELSE IF cur < NScen
             THEN pc' = "world" /\ cur' = cur + 1 /\ attempt' = 1
             ELSE pc' = "afterAll" /\ cur' = cur /\ attempt' = attempt
      /\ UNCHANGED << first, logScen, stepIdx, world, nextId, created, pageUse,
                      stepLog, acquireFailed, executed, runStatus, pageVars >>

\* mutant of After: the hook also closes the browser
AfterClosesBrowser ==
  /\ \E shotOk \in BOOLEAN, pageOk \in BOOLEAN, ctxOk \in BOOLEAN :
       AfterHook(shotOk, pageOk, ctxOk)
  /\ browserOpen' = FALSE
  /\ browserCloses' = browserCloses + 1
  /\ UNCHANGED << browser, launches >>

After ==
  /\ \E shotOk \in BOOLEAN, pageOk \in BOOLEAN, ctxOk \in BOOLEAN :
       AfterHook(shotOk, pageOk, ctxOk)
  /\ UNCHANGED << browser, browserOpen, launches, browserCloses >>

(***************************************************************************)
(* AfterAll: await browser?.close().  Closing the browser closes every     *)
(* context and page that is still open in it.                              *)
(***************************************************************************)
AfterAll ==
  /\ pc = "afterAll"
  /\ \E ok \in BOOLEAN :
       IF browser = 0
         THEN UNCHANGED << browserOpen, browserCloses, openContexts,
                           openPages, runStatus >>
         ELSE /\ browserCloses' = browserCloses + 1
              /\ IF ok
                   THEN /\ browserOpen' = FALSE
                        /\ openContexts' = {}
                        /\ openPages' = {}
                        /\ runStatus' =
                             IF \A s \in Scenarios : result[s] = "passed"
                               THEN "passed" ELSE "failed"
                   ELSE /\ runStatus' = "failed"
                        /\ UNCHANGED << browserOpen, openContexts, openPages >>
  /\ pc' = "done"
  /\ UNCHANGED << first, logScen, cur, attempt, stepIdx, browser, launches, world,
                  nextId, created, pageUse, result, shots, stepLog, hookLog,
                  acquireFailed, executed, pageVars >>

Next ==
  \/ BeforeAll
  \/ NewWorld
  \/ Before
  \/ RunStep
  \/ SkipStep
  \/ After
  \/ AfterAll

Spec == Init /\ [][Next]_vars

TypeOK ==
  /\ pc \in {"beforeAll", "world", "before", "steps", "afterAll", "done",
             "aborted"}
  /\ cur \in Scenarios
  /\ browser \in 0..1
  /\ openPages \subseteq 1..nextId
  /\ openContexts \subseteq 1..nextId

(***************************************************************************)
(* Properties.                                                             *)
(***************************************************************************)
\* the objects the driver created in scenario s's Before hook
CreatedBy(s) == { c.id : c \in { x \in created : x.scen = s } }

AfterRan == logScen = cur /\ hookLog.after # "none"

\* C1: once a scenario has finished (its After hook has run), neither its
\* page nor its browsing context is still open, whatever the outcome of the
\* scenario, of its Before hook or of the screenshot.
C1_ScenarioResourcesReleased ==
  \A s \in Scenarios :
    Finished(s) => CreatedBy(s) \cap (openContexts \cup openPages) = {}

\* C2: a rejected page.close / context.close / browser.close is swallowed:
\* the After hook still passes and still attempts context.close, and a run
\* whose scenarios all passed stays passed when browser.close rejects.
C2_ReleaseFailureSwallowed ==
  /\ (hookLog.pageCloseTried /\ ~hookLog.pageCloseOk)
       => /\ hookLog.after = "passed"
          /\ hookLog.ctxCloseTried
  /\ (hookLog.ctxCloseTried /\ ~hookLog.ctxCloseOk)
       => hookLog.after = "passed"
  /\ (pc = "done" /\ browserCloses > 0
        /\ \A s \in Scenarios : result[s] = "passed")
       => runStatus = "passed"

\* C3: a finished scenario has exactly one screenshot attached when its
\* result is failed and none when it passed.
C3_OneScreenshotIffFailed ==
  \A s \in Scenarios :
    Finished(s) => shots[s] = (IF result[s] = "failed" THEN 1 ELSE 0)

\* C4: while the steps of a scenario execute, exactly one context and one
\* page are open, and they are the current scenario's.
C4_OneScenarioContext ==
  (pc = "steps" /\ logScen = cur /\ hookLog.before = "passed"
     /\ stepIdx <= Len(PickleOf(cur)))
    => /\ openContexts = {world.context}
       /\ openPages = {world.page}
       /\ (openContexts \cup openPages) \subseteq CreatedBy(cur)

Contexts == { c \in created : c.kind = "context" }

\* C5: the browser is launched once, before any scenario's Before hook, and
\* closed once, only after the After hook of the last scenario; while
\* scenarios run the launched browser is open, and every context was
\* created from that one browser.
C5_SessionSpansRun ==
  /\ launches <= 1
  /\ browserCloses <= 1
  /\ pc \in {"world", "before", "steps"}
       => /\ launches = 1
          /\ browser # 0
          /\ browserOpen
          /\ browserCloses = 0
  /\ browserCloses = 1 => \A s \in Scenarios : Finished(s)
  /\ \A c \in Contexts : c.parent = browser /\ browser # 0
  /\ (pc = "done" /\ browser # 0) => browserCloses = 1

\* the run has ended, every scenario had its own context, and the browser
\* was closed once
C5_Witness ==
  /\ pc = "done"
  /\ ~browserOpen
  /\ browserCloses = 1
  /\ { c.scen : c \in Contexts } = Scenarios

LaunchFailed == launches > 0 /\ browser = 0

\* C6 as stated: after a failed acquisition no step routine of that
\* scenario or of any later scenario is executed.
C6_AcquisitionFailureFatalToRun ==
  /\ LaunchFailed => executed = {}
  /\ \A s \in acquireFailed : \A t \in executed : t < s

\* C6 amended: a failed acquisition is not re-attempted and no step routine
\* runs in its scope: none at all after a failed launch, none of the
\* scenario whose Before hook failed (its steps are skipped).
C6_AcquisitionFailureFatalToScope ==
  /\ launches <= 1
  /\ LaunchFailed => /\ executed = {}
                     /\ created = {}
                     /\ pc \in {"aborted", "afterAll", "done"}
  /\ acquireFailed \cap executed = {}
  /\ hookLog.newContextCalls <= 1
  /\ hookLog.newPageCalls <= 1
  /\ cur \in acquireFailed => attempt = 1
  /\ (logScen = cur /\ cur \in acquireFailed)
       => \A i \in DOMAIN stepLog :
            /\ stepLog[i].runs = 0
            /\ stepLog[i].status \in {"pending", "skipped"}

\* the Before hook of the first scenario failed, its steps were skipped,
\* and steps of a later scenario were executed
C6_Witness ==
  /\ 1 \in acquireFailed
  /\ executed # {}
  /\ \A s \in executed : s > 1

IsPageOf(id, s) ==
  \E pg \in created :
    /\ pg.kind = "page" /\ pg.id = id /\ pg.scen = s
    /\ \E cx \in Contexts : cx.id = pg.parent /\ cx.scen = s

\* C8: the page (and its context) that a scenario's steps drive was created
\* by that scenario's own Before hook, and no page is driven by the steps of
\* two scenarios.
C8_FreshWorldPerScenario ==
  /\ \A u \in pageUse : IsPageOf(u.page, u.scen)
  /\ \A u, v \in pageUse : u.page = v.page => u.scen = v.scen
  /\ (pc = "steps" /\ logScen = cur /\ hookLog.before = "passed")
       => /\ IsPageOf(world.page, cur)
          /\ \E cx \in Contexts : cx.id = world.context /\ cx.scen = cur

\* steps of two different scenarios have run
C8_Witness ==
  \E u, v \in pageUse : u.scen # v.scen

\* the steps of the logged scenario that were executed (not skipped)
RanSteps ==
  IF logScen = 0 THEN {}
  ELSE { i \in DOMAIN stepLog : stepLog[i].status \in {"passed", "failed"} }

LoggedStep(i) == PickleOf(logScen)[i]

TableKinds == {"navItems", "services", "impacts"}

C10_BrowserHandleReadOnly ==
  [][ /\ browser # 0 => browser' = browser
      /\ pc # "afterAll" => /\ browserOpen' = browserOpen \/ pc = "beforeAll"
                            /\ browserCloses' = browserCloses
      /\ (pc = "steps" /\ stepIdx' = stepIdx + 1) => world' = world
    ]_vars

\* steps ran on the World's page, After has run, and the browser assigned
\* by BeforeAll is still the open one
C10_Witness ==
  /\ AfterRan
  /\ cur \in executed
  /\ browser = 1
  /\ browserOpen
  /\ browserCloses = 0

\* C15: when the After hook asks for the failure screenshot, it asks a page
\* that the scenario's Before hook created (and that After, which closes
\* only afterwards, has not closed yet): never a page that was never created.
C15_ScreenshotFromLivePage ==
  (logScen # 0 /\ hookLog.shotPage # -1)
    => IsPageOf(hookLog.shotPage, logScen)

\* C16: when AfterAll is about to close the launched browser, no context
\* and no page created during the run is still open.
C16_NothingOpenAtBrowserClose ==
  (pc = "afterAll" /\ browser # 0)
    => openContexts = {} /\ openPages = {}

\* the cookie step of the logged scenario has been executed
CookieRan(i) ==
  /\ i \in RanSteps
  /\ LoggedStep(i).kind = "cookie"

\* C14: the cookie step clicks the button exactly when the button is
\* visible; when the button is hidden or absent, or the visibility query
\* throws, the step makes no click and passes.
C14_CookieConsentOptional ==
  \A i \in DOMAIN stepLog :
    CookieRan(i)
      => /\ banner \in {"visible", "hidden", "throws"}
         /\ stepLog[i].interactions = 1 <=> banner = "visible"
         /\ banner # "visible"
              => /\ stepLog[i].interactions = 0
                 /\ stepLog[i].status = "passed"
                 /\ result[logScen] # "failed" \/ i # stepIdx - 1

\* the visibility query threw, the step passed without a click and the
\* next step of the scenario was executed
C14_Witness ==
  \E i \in DOMAIN stepLog :
    /\ CookieRan(i)
    /\ banner = "throws"
    /\ stepLog[i].status = "passed"
    /\ i + 1 \in RanSteps

\* the click step of the logged scenario passed
Clicked ==
  \E i \in RanSteps :
    /\ LoggedStep(i).kind \in {"clickNavItem", "clickLink"}
    /\ stepLog[i].status = "passed"

\* C12: after the click step, 'I should be navigated to <path>' passes
\* exactly when some piece of the page's URL is the literal path, and 'the
\* page title should contain <label>' passes exactly when some piece of the
\* title is the literal label; a URL without the path fails the scenario.
C12_NavigationAsserted ==
  \A i \in RanSteps :
    LET step == LoggedStep(i)
        passed == stepLog[i].status = "passed"
    IN  /\ step.kind = "navigatedTo"
             => /\ Clicked
                /\ passed <=> \E j \in DOMAIN location :
                                location[j] = step.args[1]
                /\ ~passed => result[logScen] = "failed"
        /\ step.kind = "titleContains"
             => /\ Clicked
                /\ passed <=> \E j \in DOMAIN title : title[j] = step.args[1]

\* the click led below the target path: the URL check passed on a URL that
\* is longer than origin + path, and the title check was then executed
C12_Witness ==
  \E i, k \in RanSteps :
    /\ LoggedStep(i).kind = "navigatedTo"
    /\ stepLog[i].status = "passed"
    /\ Len(location) > 2
    /\ LoggedStep(k).kind = "titleContains"

\* the orders in which the list of the keyboard step can be processed
Orders ==
  { [i \in DOMAIN NavLinks |-> NavLinks[p[i]]] :
      p \in Permutations(DOMAIN NavLinks) }

\* the link named n is in the header and takes focus when asked to
TakesFocus(n) ==
  \E l \in links : l.name = n /\ l.visible /\ l.focusable

\* C13 as stated: whenever the keyboard step runs, each link of its list is
\* given focus and checked, whatever the checks of the other links gave,
\* and the outcome is the same for every order of the list.
C13_EveryLinkChecked ==
  \A i \in RanSteps :
    LoggedStep(i).kind = "keyboard"
      => /\ stepLog[i].interactions = Len(NavLinks)
         /\ \A o \in Orders :
              stepLog[i].status = "passed"
                <=> KeyboardFrom(o, 1, links, "").failAt = 0

\* C13 amended: the links are focused and checked in list order up to the
\* first one that does not take focus; the step passes exactly when every
\* link of the list, taken by itself, takes focus, and processing the list
\* in any other order gives the same outcome.
C13_FocusOrderIndependent ==
  \A i \in RanSteps :
    LoggedStep(i).kind = "keyboard"
      => LET passed == stepLog[i].status = "passed"
             bad == { k \in DOMAIN NavLinks : ~TakesFocus(NavLinks[k]) }
         IN  /\ passed <=> bad = {}
             /\ \A o \in Orders :
                  passed <=> KeyboardFrom(o, 1, links, "").failAt = 0
             /\ passed => /\ stepLog[i].interactions = Len(NavLinks)
                          /\ stepLog[i].queries = Len(NavLinks)
             /\ ~passed => \A k \in bad :
                             (\A j \in bad : k <= j)
                               => stepLog[i].interactions = k

\* the step failed on a header in which a link that takes focus is
\* followed by one that does not
C13_Witness ==
  \E i \in RanSteps :
    /\ LoggedStep(i).kind = "keyboard"
    /\ stepLog[i].status = "failed"
    /\ TakesFocus(NavLinks[1])
    /\ \E l \in links : l.name = NavLinks[2] /\ ~l.focusable

\* the header shows row k of the table: a visible link with exactly that
\* name and exactly that destination
RowShown(rows, k) ==
  \E l \in links :
    l.visible /\ l.name = rows[k][1] /\ l.href = rows[k][2]

\* the header shows row k by the one link of that name
RowShownOnce(rows, k) ==
  /\ RowShown(rows, k)
  /\ \A l, m \in links :
       (l.visible /\ m.visible /\ l.name = rows[k][1] /\ m.name = rows[k][1])
         => l = m

\* C11 as stated: the step passes exactly when the header shows every row
\* of the table.
C11_PassesIffEveryRowShown ==
  \A i \in RanSteps :
    LoggedStep(i).kind = "navItems"
      => LET rows == LoggedStep(i).rows
         IN  stepLog[i].status = "passed"
               <=> \A k \in DOMAIN rows : RowShown(rows, k)

\* C11 amended: the step passes exactly when, for every row, the header's
\* one link of that name is visible and has the row's destination; the rows
\* are checked in table order and the step stops at the first row for which
\* this is not so (two queries per row before it, at most two for it).
C11_PassesIffEveryRowShownOnce ==
  \A i \in RanSteps :
    LoggedStep(i).kind = "navItems"
      => LET rows == LoggedStep(i).rows
             bad == { k \in DOMAIN rows : ~RowShownOnce(rows, k) }
             passed == stepLog[i].status = "passed"
         IN  /\ passed <=> bad = {}
             /\ passed => stepLog[i].queries = 2 * Len(rows)
             /\ \A k \in bad :
                  (\A j \in bad : k <= j)
                    => stepLog[i].queries \in {2 * (k - 1) + 1, 2 * k}

\* the step failed at the second of two rows the header does not show: the
\* rows before it were checked, the rows after it were not
C11_Witness ==
  \E i \in RanSteps :
    /\ LoggedStep(i).kind = "navItems"
    /\ stepLog[i].status = "failed"
    /\ LET rows == LoggedStep(i).rows
       IN  /\ RowShownOnce(rows, 1)
           /\ ~RowShownOnce(rows, 2)
           /\ ~RowShownOnce(rows, 4)
           /\ stepLog[i].queries \in 3..4

====
